---- MODULE Spec2Model ----
(***************************************************************************)
(* A model of the peer-discovery coordinator of src/index.js: the Topic    *)
(* state machine (global DHT loop, local multicast loop), the Domain      *)
(* Index, the local-channel matcher and the Discovery session.            *)
(*                                                                         *)
(* The program runs on one thread.  Every handler of the code (an API     *)
(* call, a timer callback, a stream event, a multicast message, a         *)
(* process.nextTick callback) is one atomic action.  The operators that   *)
(* model the code take the program state as a record s and return the     *)
(* state the code leaves, so that a handler that calls into other methods *)
(* (and into the caller's own event listeners, which may call back into   *)
(* the API) is the composition of their operators.                        *)
(***************************************************************************)
EXTENDS Integers, Sequences, FiniteSets, TLC

VARIABLES
  _tld,            \* Discovery._tld
  topics,          \* the Topic objects, in creation order
  _domains,        \* Discovery._domains: domain -> set of topics
  destroyed,       \* Discovery.destroyed
  missing,         \* the counter of Discovery.destroy's closure
  timers,          \* the scheduled setTimeout callbacks
  streams,         \* the live hyperdht announce/lookup streams
  ticks,           \* the process.nextTick queue
  unannounces,     \* the dht.unannounce calls whose callback is outstanding
  queries,         \* multicast queries sent by this session
  responses,       \* multicast responses sent by this session, in flight
  dhtDestroyed,    \* dht.destroy() was called
  mdnsDestroyed,   \* mdns.destroy() was called
  obs,             \* which observations log and hist keep (fixed by Init)
  log,             \* what the last handler emitted, issued and returned
  hist,            \* per Topic: how often it closed, was unannounced, ...
  closes,          \* how many times the session emitted `close`
  unclosedAtClose, \* the Topics that had not emitted `close` at the session's
  _bootstrap,      \* Discovery._bootstrap: the bootstrap nodes
  pings,           \* the calls of Discovery.ping: each one's closure
  punches          \* the dht.holepunch calls whose callback is outstanding

vars == <<_tld, topics, _domains, destroyed, missing, timers, streams, ticks,
          unannounces, queries, responses, dhtDestroyed, mdnsDestroyed, obs,
          log, hist, closes, unclosedAtClose, _bootstrap, pings, punches>>

----------------------------------------------------------------------------
(* Bounds of the model.                                                    *)

\* Topics created over a run.
MaxTopics == 2
\* Multicast responses of this session in flight at once; a further one is lost.
MaxInFlight == 1
\* Streams of one Topic that have failed and not ended yet.
MaxFailed == 1
\* Calls of Discovery.ping over a run.
MaxPings == 2

(* Program constants.                                                      *)

\* null: a handle field that holds nothing.
Null == 0
\* key.slice(0, 20)
PrefixLen == 20

----------------------------------------------------------------------------
(* Data.                                                                   *)

\* Topic keys: Key1 and Key2 agree on their first 20 bytes, Key3 does not.
Key1 == [i \in 1..22 |-> 1]
Key2 == [i \in 1..22 |-> IF i > 20 THEN 2 ELSE 1]
Key3 == [i \in 1..20 |-> 255]
Keys == {Key1, Key2, Key3}

HexDigit == <<"0", "1", "2", "3", "4", "5", "6", "7",
              "8", "9", "a", "b", "c", "d", "e", "f">>

\* Buffer.toString('hex')
RECURSIVE ToHex(_)
ToHex(bytes) ==
  IF bytes = <<>> THEN ""
  ELSE HexDigit[(Head(bytes) \div 16) + 1] \o HexDigit[(Head(bytes) % 16) + 1]
       \o ToHex(Tail(bytes))

\* Buffer.slice(0, n)
Slice(bytes, n) == SubSeq(bytes, 1, IF Len(bytes) < n THEN Len(bytes) ELSE n)

\* A variant of Discovery._domain that encodes the whole key.
DomainOfWholeKey(tld, key) == ToHex(key) \o tld

\* Discovery._domain
DomainOf(tld, key) == ToHex(Slice(key, PrefixLen)) \o tld

\* opts.domain || 'hyperswarm.local' ("": the option is not given)
DomainOpts == {"", "test.local"}
TldOf(opt) == "." \o (IF opt = "" THEN "hyperswarm.local" ELSE opt)

\* The options of Discovery.announce: port, localPort (0: not given), lookup.
AnnounceOpts ==
  { [port |-> 4000, localPort |-> 0, lookup |-> FALSE],
    [port |-> 4000, localPort |-> 0, lookup |-> TRUE],
    [port |-> 0,    localPort |-> 0, lookup |-> FALSE] }

NoPeer == [host |-> "", port |-> 0, local |-> FALSE, referrer |-> "", of |-> 0]

----------------------------------------------------------------------------
(* The program state as one value.  A handler starts with an empty log.   *)

Cur ==
  [ _tld |-> _tld, topics |-> topics, _domains |-> _domains,
    destroyed |-> destroyed, missing |-> missing, timers |-> timers,
    streams |-> streams, ticks |-> ticks, unannounces |-> unannounces,
    queries |-> queries, responses |-> responses,
    dhtDestroyed |-> dhtDestroyed, mdnsDestroyed |-> mdnsDestroyed,
    obs |-> obs, log |-> <<>>, hist |-> hist, closes |-> closes,
    unclosedAtClose |-> unclosedAtClose, _bootstrap |-> _bootstrap,
    pings |-> pings, punches |-> punches ]

Commit(s) ==
  /\ _tld' = s._tld
  /\ topics' = s.topics
  /\ _domains' = s._domains
  /\ destroyed' = s.destroyed
  /\ missing' = s.missing
  /\ timers' = s.timers
  /\ streams' = s.streams
  /\ ticks' = s.ticks
  /\ unannounces' = s.unannounces
  /\ queries' = s.queries
  /\ responses' = s.responses
  /\ dhtDestroyed' = s.dhtDestroyed
  /\ mdnsDestroyed' = s.mdnsDestroyed
  /\ obs' = s.obs
  /\ log' = s.log
  /\ hist' = s.hist
  /\ closes' = s.closes
  /\ unclosedAtClose' = s.unclosedAtClose
  /\ _bootstrap' = s._bootstrap
  /\ pings' = s.pings
  /\ punches' = s.punches

TopicIds(s) == DOMAIN s.topics

\* The smallest handle not in use.
Fresh(used) ==
  CHOOSE i \in 1..(Cardinality(used) + 1) :
    i \notin used /\ \A j \in 1..(i - 1) : j \in used

\* A timer is known by its Topic, its loop (fn) and a number; a stream by its
\* Topic and a number.  A handle field holds the number: the two timeout fields
\* of a Topic and its stream field are only ever assigned a handle made for
\* them, in the statement that makes it.
TimerHandles(s, t, fn) == {x.id : x \in {y \in s.timers : y.t = t /\ y.fn = fn}}

StreamHandles(s, t) == {x.id : x \in {y \in s.streams : y.t = t}}

Inc(n) == IF n < 2 THEN n + 1 ELSE 2

\* log and hist are the record of what the program did, kept beside the
\* program's state and never read by the program.  log holds the entries of
\* the handler that ran last; hist holds, per Topic, the few facts that must
\* outlive a handler.  A specification fixes in obs which are kept:
\*   "peer"      log: a `peer` event, and whether destroy() had been called
\*   "update"    log: an `update` event, and whether destroy() had been called
\*   "op"        log: a dht.announce, dht.lookup or mdns.query that was issued
\*   "sched"     log: a retry that was scheduled
\*   "signal"    log: an `error` or `end` of a stream
\*   "destroyed" log: a Topic.destroy() that ran, with the state at its return
\*   "updated"   log: a Topic.update() that ran, with what it found and issued
\*   "cbs"       hist: succeeded, failed (the calls of lookupOne's callback)
\*   "cb"        log: a call of lookupOne's callback; hist: peers (the `peer`
\*               events of a lookupOne Topic so far)
\*   "response"  log: a call of mdns.response, with the query it answers
\*   "dispatch"  log: a multicast response that came in
\*   "throw"     log: an exception thrown to the caller
\*   "holepunch" log: a call of holepunch, with what it did
\*   "punch"     log: a call of dht.holepunch
\*   "punchcb"   log: a call of holepunch's callback
\*   "api"       log: a call of announce or lookup, with what it did
\*   "sdestroyed" log: a Discovery.destroy() that ran, with the state at its
\*               return
\*   "close"     hist: closed, unannounced; closes and unclosedAtClose
Log(s, kind, entry) ==
  IF kind \in s.obs THEN [s EXCEPT !.log = Append(@, entry)] ELSE s

Seen(s, kind, old, new) == IF kind \in s.obs THEN new ELSE old

\* setTimeout(fn, ...) in Discovery._notify: fn is the loop of one Topic's
\* channel; the eager class waits 30 s to 60 s, the lazy one 300 s to 600 s.
\* Time is not modelled: a scheduled callback fires at any later moment.
Notify(s, id, t, fn, eager) ==
  Log([s EXCEPT !.timers =
         @ \cup {[id |-> id, t |-> t, fn |-> fn, eager |-> eager]}],
      "sched", [ev |-> "sched", t |-> t, fn |-> fn, eager |-> eager])

\* A variant of clearTimeout that cancels nothing.
KeepTimeout(s, t, fn, h) == s

\* clearTimeout(h), h read from the timeout field of Topic t for the loop fn
ClearTimeout(s, t, fn, h) ==
  [s EXCEPT !.timers = {x \in @ : ~(x.t = t /\ x.fn = fn /\ x.id = h)}]

----------------------------------------------------------------------------
(* The Domain Index: a Map from domain to a Set of Topics, both of which  *)
(* iterate in insertion order.                                             *)

MapHas(m, d) == \E i \in 1..Len(m) : m[i].name = d

MapIdx(m, d) == CHOOSE i \in 1..Len(m) : m[i].name = d

\* Map.get: the set, or the empty sequence for undefined.
MapGet(m, d) == IF MapHas(m, d) THEN m[MapIdx(m, d)].set ELSE <<>>

InSeq(seq, x) == \E i \in 1..Len(seq) : seq[i] = x

Without(seq, x) == SelectSeq(seq, LAMBDA y : y # x)

\* Map.delete
MapDelete(m, d) == SelectSeq(m, LAMBDA e : e.name # d)

\* Set.add on the set stored under d
SetAdd(m, d, t) ==
  [m EXCEPT ![MapIdx(m, d)].set = IF InSeq(@, t) THEN @ ELSE Append(@, t)]

\* Set.delete on the set stored under d
SetDelete(m, d, t) == [m EXCEPT ![MapIdx(m, d)].set = Without(@, t)]

\* The Topics of the index in the order `for (set of values) for (topic of set)`
\* visits them.
RECURSIVE Flatten(_)
Flatten(m) == IF m = <<>> THEN <<>> ELSE Head(m).set \o Flatten(Tail(m))

InIndex(s, t) == InSeq(Flatten(s._domains), t)

----------------------------------------------------------------------------
(* Topic.                                                                  *)

\* mdns.query(query): the message goes to the multicast group, this session's
\* own socket included.  The network may deliver a datagram late, more than
\* once, or never.
MdnsSend(s, q) ==
  IF s.mdnsDestroyed THEN s ELSE [s EXCEPT !.queries = @ \cup {q}]

\* The query of Topic._startMdns: one SRV question for the Topic's domain and
\* a TXT record that carries the Topic's token.
QueryOf(topic) ==
  [ questions |-> << [type |-> "SRV", name |-> topic._domain] >>,
    answers |-> << [type |-> "TXT", name |-> topic._domain,
                    data |-> << topic.id >>] >> ]

\* loop() of Topic._startMdns
MdnsLoop(s, t) ==
  LET s1 == Log(MdnsSend(s, QueryOf(s.topics[t])), "op",
                [ev |-> "op", t |-> t, kind |-> "query",
                 late |-> s.topics[t].destroyed])
      id == Fresh(TimerHandles(s1, t, "mdns"))
  IN  [Notify(s1, id, t, "mdns", TRUE) EXCEPT !.topics[t]._timeoutMdns = id]

\* Topic._startMdns
StartMdns(s, t) == MdnsLoop(s, t)

\* loop() of Topic._startDht: issue dht.announce or dht.lookup and track the
\* stream, which carries the `called` flag of this loop() call; done() is
\* DhtDone below.
DhtLoop(s, t) ==
  LET id == Fresh(StreamHandles(s, t))
      kind == IF s.topics[t].announce THEN "announce" ELSE "lookup"
      stream == [id |-> id, t |-> t, kind |-> kind, st |-> "open",
                 called |-> FALSE]
  IN  Log([s EXCEPT !.streams = @ \cup {stream},
                    !.topics[t]._timeoutDht = Null,
                    !.topics[t]._stream = id],
          "op", [ev |-> "op", t |-> t, kind |-> kind,
                 late |-> s.topics[t].destroyed])

\* Topic._startDht
StartDht(s, t) == DhtLoop(s, t)

\* stream.destroy(): the stream delivers nothing further.
StreamDestroy(s, t, h) ==
  [s EXCEPT !.streams = {x \in @ : ~(x.t = t /\ x.id = h)}]

\* Topic._stopDht
StopDht(s, t) ==
  LET s1 == ClearTimeout(s, t, "dht", s.topics[t]._timeoutDht)
      s2 == [s1 EXCEPT !.topics[t]._timeoutDht = Null]
  IN  IF s2.topics[t]._stream # Null
        THEN StreamDestroy(s2, t, s2.topics[t]._stream)
        ELSE s2

\* What is observed of Topic t at one moment.
Snapshot(s, t) ==
  [ destroyed |-> s.topics[t].destroyed,
    timers |-> {x.fn : x \in {y \in s.timers : y.t = t}},
    streams |-> Cardinality({x \in s.streams : x.t = t /\ x.st = "open"}),
    indexed |-> InIndex(s, t),
    closed |-> s.hist[t].closed,
    peers |-> s.hist[t].peers,
    unannounces |-> s.hist[t].unannounced,
    unannouncing |-> t \in s.unannounces,
    ticking |-> InSeq(s.ticks, [fn |-> "close", t |-> t]) ]

\* A variant of lines 53-55 that keeps the entry of a set it emptied.
UnregisterKeepEntry(s, t) ==
  [s EXCEPT !._domains = SetDelete(@, s.topics[t]._domain, t)]

\* Topic.destroy, lines 53-55: leave the Domain Index.
Unregister(s, t) ==
  LET d == s.topics[t]._domain
      m1 == SetDelete(s._domains, d, t)
  IN  [s EXCEPT !._domains = IF MapGet(m1, d) = <<>> THEN MapDelete(m1, d) ELSE m1]

\* A variant of the end of Topic.destroy that never unannounces.
CloseOnTick(s, t) == [s EXCEPT !.ticks = Append(@, [fn |-> "close", t |-> t])]

\* Topic.destroy, lines 57-60: close on the next tick, or after the unannounce.
SignalClose(s, t) ==
  IF ~s.topics[t].announce
    THEN [s EXCEPT !.ticks = Append(@, [fn |-> "close", t |-> t])]
    ELSE [s EXCEPT !.unannounces = @ \cup {t},
                   !.hist[t].unannounced = Seen(s, "close", @, Inc(@))]

\* Topic.destroy
TopicDestroy(s, t) ==
  IF s.topics[t].destroyed
    THEN Log(s, "destroyed",
             [ev |-> "destroyed", t |-> t, again |-> TRUE,
              before |-> Snapshot(s, t), at |-> Snapshot(s, t)])
  ELSE
    LET s1 == [s EXCEPT !.topics[t].destroyed = TRUE]
        s2 == StopDht(s1, t)
        s3 == ClearTimeout(s2, t, "mdns", s2.topics[t]._timeoutMdns)
        s4 == IF ~MapHas(s3._domains, s3.topics[t]._domain)
                THEN s3  \* set is undefined: set.delete throws
                ELSE SignalClose(Unregister(s3, t), t)
    IN  Log(s4, "destroyed",
            [ev |-> "destroyed", t |-> t, again |-> FALSE,
             before |-> Snapshot(s, t), at |-> Snapshot(s4, t)])

\* Topic.update
TopicUpdate(s, t) ==
  IF s.topics[t].destroyed THEN s
  ELSE
    LET s1 == IF s.topics[t]._timeoutDht # Null
                THEN StartDht(
                       [ClearTimeout(s, t, "dht", s.topics[t]._timeoutDht)
                          EXCEPT !.topics[t]._timeoutDht = Null], t)
                ELSE s
        s2 == StartMdns(ClearTimeout(s1, t, "mdns", s1.topics[t]._timeoutMdns), t)
    IN  Log(s2, "updated",
            [ ev |-> "updated", t |-> t,
              pending |-> \E x \in s.timers : x.t = t /\ x.fn = "dht",
              issued |-> {x.kind : x \in {y \in s2.streams \ s.streams : y.t = t}},
              left |-> \E x \in s2.timers : x.t = t /\ x.fn = "dht" ])

\* new Topic(discovery, key, opts): o.announce says whether opts.announce is
\* given, o.one whether Discovery.lookupOne made the Topic (it then carries
\* lookupOne's two listeners and none of the caller's).
NewTopic(s, key, o) ==
  LET t == Len(s.topics) + 1
      name == DomainOf(s._tld, key)
      topic == [ key |-> key, announce |-> o.announce, annPort |-> o.port,
                 destroyed |-> FALSE, id |-> t,
                 _timeoutDht |-> Null, _timeoutMdns |-> Null, _stream |-> Null,
                 _domain |-> name, _answer |-> o.localPort,
                 one |-> o.one, onclose |-> o.one, onpeer |-> o.one,
                 done |-> FALSE ]
      h == [ lookupOpt |-> o.lookup, closed |-> 0, unannounced |-> 0,
             peers |-> 0, succeeded |-> 0, failed |-> 0 ]
      s1 == [s EXCEPT !.topics = Append(@, topic), !.hist = Append(@, h)]
      s2 == StartDht(s1, t)
  IN  IF ~o.announce \/ o.lookup THEN StartMdns(s2, t) ELSE s2

\* Discovery._topic
_topic(s, key, o) ==
  LET s1 == NewTopic(s, key, o)
      t == Len(s1.topics)
      d == DomainOf(s._tld, key)
      m1 == IF MapHas(s1._domains, d) THEN s1._domains
            ELSE Append(s1._domains, [name |-> d, set |-> <<>>])
  IN  [s1 EXCEPT !._domains = SetAdd(m1, d, t)]

\* throw new Error('Discovery instance is destroyed'): the call ends there.
Throw(s, op) == Log(s, "throw", [ev |-> "throw", op |-> op])

\* A variant of Discovery.lookup without the destroyed check.
LookupUnchecked(s, key) ==
  _topic(s, key, [announce |-> FALSE, port |-> 0, localPort |-> 0,
                  lookup |-> FALSE, one |-> FALSE])

\* Discovery.lookup
lookup(s, key) ==
  IF s.destroyed THEN Throw(s, "lookup")
  ELSE _topic(s, key, [announce |-> FALSE, port |-> 0, localPort |-> 0,
                       lookup |-> FALSE, one |-> FALSE])

\* Discovery.announce
announce(s, key, opts) ==
  IF s.destroyed THEN Throw(s, "announce")
  ELSE _topic(s, key,
         [ announce |-> TRUE, port |-> opts.port,
           localPort |-> IF opts.localPort # 0 THEN opts.localPort ELSE opts.port,
           lookup |-> opts.lookup, one |-> FALSE ])

\* What a call of announce or lookup did, s before it and s2 after it.
Returned(s, op, s2) ==
  Log(s2, "api",
      [ ev |-> "api", op |-> op, after |-> s.destroyed,
        threw |-> \E j \in DOMAIN s2.log : s2.log[j].ev = "throw",
        made |-> Len(s2.topics) - Len(s.topics),
        issued |-> (s2.streams # s.streams) \/ (s2.timers # s.timers)
                     \/ (s2.queries # s.queries),
        index |-> s2._domains ])

----------------------------------------------------------------------------
(* Discovery.destroy.                                                      *)

\* The loop body of Discovery.destroy over the Topics of the index.
RECURSIVE DestroyEach(_, _)
DestroyEach(s, ts) ==
  IF ts = <<>> THEN s
  ELSE LET t == Head(ts)
           s1 == TopicDestroy([s EXCEPT !.missing = @ + 1], t)
       IN  DestroyEach([s1 EXCEPT !.topics[t].done = TRUE], Tail(ts))

\* done() of Discovery.destroy
SessionDone(s) ==
  LET s1 == [s EXCEPT !.missing = @ - 1]
  IN  IF s1.missing # 0 THEN s1
      ELSE [s1 EXCEPT !.dhtDestroyed = TRUE,
                      !.closes = Seen(s, "close", @, Inc(@)),
                      !.unclosedAtClose =
                         IF s.closes = 0 /\ "close" \in s.obs
                           THEN {t \in TopicIds(s) : s.hist[t].closed = 0}
                           ELSE @]

\* A variant of line 244 that calls done at once.
DoneNow(s) == SessionDone(s)

\* process.nextTick(done)
DoneOnTick(s) == [s EXCEPT !.ticks = Append(@, [fn |-> "done", t |-> 0])]

\* Discovery.destroy
SessionDestroy(s) ==
  IF s.destroyed THEN s
  ELSE
    LET s1 == [s EXCEPT !.destroyed = TRUE, !.missing = 1,
                        \* mdns.destroy(): the socket is closed, and what was
                        \* in flight towards it is never delivered
                        !.mdnsDestroyed = TRUE, !.responses = {}]
        s2 == DoneOnTick(DestroyEach(s1, Flatten(s1._domains)))
    IN  Log(s2, "sdestroyed",
            [ ev |-> "sdestroyed", live |-> Len(Flatten(s._domains)),
              closes |-> s2.closes, dht |-> s2.dhtDestroyed,
              ticking |-> InSeq(s2.ticks, [fn |-> "done", t |-> 0]) ])


----------------------------------------------------------------------------
(* Events and their listeners.  A Topic made by announce or lookup is     *)
(* handed to the caller, whose listener may call back into the API while  *)
(* the event is being emitted; a Topic made by lookupOne carries only     *)
(* lookupOne's own listeners.                                              *)

\* The caller's code, run inside a listener of Topic t or inside a callback.
UserCall(s, t, call) ==
  CASE call = "destroy"  -> TopicDestroy(s, t)
    [] call = "update"   -> TopicUpdate(s, t)
    [] call = "sdestroy" -> SessionDestroy(s)
    [] OTHER             -> s

\* cb(err, peer) of Discovery.lookupOne: the callback is the caller's code,
\* which has the session but not the Topic.
Callback(s, t, err, peer, call) ==
  LET s0 == Log(s, "cb", [ev |-> "cb", t |-> t, err |-> err, peer |-> peer,
                          at |-> Snapshot(s, t)])
      s1 == IF err
              THEN [s0 EXCEPT !.hist[t].failed = Seen(s, "cbs", @, Inc(@))]
              ELSE [s0 EXCEPT !.hist[t].succeeded = Seen(s, "cbs", @, Inc(@))]
  IN  IF call = "sdestroy" THEN SessionDestroy(s1) ELSE s1

\* A variant of onpeer that calls back without destroying the Topic.
OnPeerLive(s, t, peer, call) ==
  Callback([s EXCEPT !.topics[t].onclose = FALSE], t, FALSE, peer, call)

\* onpeer of Discovery.lookupOne
OnPeer(s, t, peer, call) ==
  LET s1 == [s EXCEPT !.topics[t].onclose = FALSE]
      s2 == TopicDestroy(s1, t)
  IN  Callback(s2, t, FALSE, peer, call)

\* A variant of .once('peer', onpeer) that leaves the listener in place.
On(s, t) == s

\* .once('peer', onpeer), line 191: the listener is removed before it runs.
Once(s, t) == [s EXCEPT !.topics[t].onpeer = FALSE]

\* topic.emit('peer', peer)
EmitPeer(s, t, peer, call) ==
  LET s0 == [s EXCEPT !.hist[t].peers =
                IF s.topics[t].one THEN Seen(s, "cb", @, Inc(@)) ELSE @]
      s1 == Log(s0, "peer", [ev |-> "peer", t |-> t, peer |-> peer,
                             nth |-> s0.hist[t].peers,
                             late |-> s.topics[t].destroyed])
  IN  IF s.topics[t].one
        THEN IF s.topics[t].onpeer
               THEN OnPeer(Once(s1, t), t, peer, call)
               ELSE s1
        ELSE UserCall(s1, t, call)

\* topic.emit('update', err)
EmitUpdate(s, t, err, call) ==
  LET s1 == Log(s, "update", [ev |-> "update", t |-> t, err |-> err,
                              late |-> s.topics[t].destroyed])
  IN  IF s.topics[t].one THEN s1 ELSE UserCall(s1, t, call)

\* topic.emit('close'): the listeners in the order they were added: the
\* caller's (or lookupOne's onclose), then done of Discovery.destroy.
EmitClose(s, t, call) ==
  LET s1 == [s EXCEPT !.hist[t].closed = Seen(s, "close", @, Inc(@))]
      s2 == IF s.topics[t].one
              THEN IF s.topics[t].onclose
                     THEN Callback(s1, t, TRUE, NoPeer, call)
                     ELSE s1
              ELSE UserCall(s1, t, call)
  IN  IF s.topics[t].done THEN SessionDone(s2) ELSE s2

----------------------------------------------------------------------------
(* The global loop's stream events.                                        *)

\* A stream is named by sid = <<Topic, number>>.
StreamOf(s, sid) == CHOOSE x \in s.streams : <<x.t, x.id>> = sid

SetStream(s, sid, y) ==
  [s EXCEPT !.streams = {x \in @ : <<x.t, x.id>> # sid} \cup {y}]

\* called = true, on the stream x if it still exists
Called(s, x) ==
  [s EXCEPT !.streams =
     {IF <<y.t, y.id>> = <<x.t, x.id>> THEN [y EXCEPT !.called = TRUE] ELSE y
        : y \in @}]

\* A variant of done without the `called` flag.
DhtDoneAgain(s, x, err, call) ==
  IF s.topics[x.t].destroyed THEN s
  ELSE
    LET s1 == [Called(s, x) EXCEPT !.topics[x.t]._stream = Null]
        s2 == EmitUpdate(s1, x.t, err, call)
        id == Fresh(TimerHandles(s2, x.t, "dht"))
    IN  [Notify(s2, id, x.t, "dht", FALSE) EXCEPT !.topics[x.t]._timeoutDht = id]

\* done(err) of Topic._startDht, for the stream x of that loop() call
DhtDone(s, x, err, call) ==
  LET t == x.t
  IN  IF x.called \/ s.topics[t].destroyed THEN s
      ELSE
        LET s1 == [Called(s, x) EXCEPT !.topics[t]._stream = Null]
            s2 == EmitUpdate(s1, t, err, call)
            id == Fresh(TimerHandles(s2, t, "dht"))
        IN  [Notify(s2, id, t, "dht", FALSE) EXCEPT !.topics[t]._timeoutDht = id]

\* Once done has run for a stream that failed, no field holds the stream any
\* longer and its number is free for the next stream of the Topic: it is then
\* known by a number below zero.
Detach(s, x) ==
  IF s.topics[x.t]._stream = x.id
       \/ ~\E y \in s.streams : <<y.t, y.id>> = <<x.t, x.id>>
    THEN s
    ELSE SetStream(s, <<x.t, x.id>>,
           [StreamOf(s, <<x.t, x.id>>) EXCEPT
              !.id = 0 - Fresh({0 - h : h \in {g \in StreamHandles(s, x.t) : g < 0}})])

\* The stream sid signals `error` (sig = "error") or `end` (sig = "end"): both
\* events are bound to done, which gets the error, or nothing.  A stream that
\* has failed may still end; one that has ended is gone.
StreamSignal(s, sid, sig, call) ==
  LET x == StreamOf(s, sid)
      s1 == Log(s, "signal",
                [ev |-> "signal", t |-> x.t, sig |-> sig,
                 first |-> x.st = "open",
                 live |-> ~s.topics[x.t].destroyed,
                 peers |-> s.hist[x.t].peers])
      s2 == IF sig = "error"
              THEN SetStream(s1, sid, [x EXCEPT !.st = "errored"])
              ELSE [s1 EXCEPT !.streams = {y \in @ : <<y.t, y.id>> # sid}]
  IN  Detach(DhtDone(s2, x, IF sig = "error" THEN "error" ELSE "none", call), x)

\* The peer events of one data item, in the order Topic._ondhtdata emits them.
PeersOf(data) ==
  [i \in 1..Len(data.localPeers) |->
     [ host |-> data.localPeers[i].host, port |-> data.localPeers[i].port,
       local |-> TRUE, referrer |-> "", of |-> 0 ]]
  \o
  [i \in 1..Len(data.peers) |->
     [ host |-> data.peers[i].host, port |-> data.peers[i].port,
       local |-> FALSE, referrer |-> data.node, of |-> 0 ]]

\* Emit evs[i..] on Topic t; the caller's listener acts at the k-th event.
RECURSIVE EmitPeers(_, _, _, _, _, _)
EmitPeers(s, t, evs, i, k, call) ==
  IF i > Len(evs) THEN s
  ELSE EmitPeers(EmitPeer(s, t, evs[i], IF i = k THEN call ELSE "none"),
                 t, evs, i + 1, k, call)

\* Topic._ondhtdata
_ondhtdata(s, t, data, k, call) ==
  IF s.topics[t].destroyed THEN s
  ELSE EmitPeers(s, t, PeersOf(data), 1, k, call)

----------------------------------------------------------------------------
(* The local channel matcher.                                              *)

OwnAddress == "192.168.0.2"

\* Topic._answer as a record of a response; `of` names the Topic whose
\* advertisement the record is (0: some other host's).
AnswerOf(topic) ==
  [ type |-> "SRV", name |-> topic._domain, target |-> "0.0.0.0",
    port |-> topic._answer, of |-> topic.id ]

\* mdns.response(r): a response without answers makes _onmdnsresponse do
\* nothing wherever it arrives, and is not tracked.
MdnsRespond(s, r) ==
  IF s.mdnsDestroyed \/ r.answers = <<>>
       \/ Cardinality(s.responses \cup {r}) > MaxInFlight
    THEN s
    ELSE [s EXCEPT !.responses = @ \cup {r}]

\* A variant of Discovery._getId that finds no token.
NoId(answers, name) == Null

\* Discovery._getId: the token of the first matching TXT record, or null.
RECURSIVE _getId(_, _)
_getId(answers, name) ==
  IF answers = <<>> THEN Null
  ELSE LET a == Head(answers)
       IN  IF a.type = "TXT" /\ a.name = name /\ Len(a.data) > 0
             THEN a.data[1]
             ELSE _getId(Tail(answers), name)

\* The inner loop of Discovery._onmdnsquery over the Topics of one set.
RECURSIVE AnswersOf(_, _, _)
AnswersOf(s, ts, id) ==
  IF ts = <<>> THEN <<>>
  ELSE LET topic == s.topics[Head(ts)]
       IN  (IF id # Null /\ topic.id = id THEN <<>>
            ELSE IF topic._answer # Null THEN << AnswerOf(topic) >>
            ELSE <<>>)
           \o AnswersOf(s, Tail(ts), id)

\* The outer loop of Discovery._onmdnsquery over the questions.
RECURSIVE QueryAnswers(_, _, _)
QueryAnswers(s, res, qs) ==
  IF qs = <<>> THEN <<>>
  ELSE LET q == Head(qs)
       IN  (IF q.type = "SRV" /\ MapHas(s._domains, q.name)
              THEN AnswersOf(s, MapGet(s._domains, q.name),
                             _getId(res.answers, q.name))
              ELSE <<>>)
           \o QueryAnswers(s, res, Tail(qs))

\* Discovery._onmdnsquery
_onmdnsquery(s, res) ==
  LET r == [ answers |-> QueryAnswers(s, res, res.questions),
             address |-> OwnAddress ]
  IN  Log(MdnsRespond(s, r), "response",
          [ev |-> "response", to |-> res, answers |-> r.answers])

\* `for (const topic of set)` of Discovery._onmdnsresponse: a Set iterator
\* skips the members deleted before it reaches them.  r.n counts the events
\* emitted so far; the caller's listener acts at the k-th.
RECURSIVE FanOut(_, _, _, _, _, _)
FanOut(r, peer, d, ts, k, call) ==
  IF ts = <<>> THEN r
  ELSE IF ~InSeq(MapGet(r.s._domains, d), Head(ts))
         THEN FanOut(r, peer, d, Tail(ts), k, call)
         ELSE FanOut([ s |-> EmitPeer(r.s, Head(ts), peer,
                                      IF r.n + 1 = k THEN call ELSE "none"),
                       n |-> r.n + 1 ],
                     peer, d, Tail(ts), k, call)

\* A variant of lines 278-280 that takes the target as it is.
TargetOf(a, address) == a.target

\* Discovery._onmdnsresponse, lines 278-280: the host of the candidate.
HostOf(a, address) == IF a.target = "0.0.0.0" THEN address ELSE a.target

\* `for (const a of res.answers)` of Discovery._onmdnsresponse
RECURSIVE Dispatch(_, _, _, _, _)
Dispatch(r, answers, address, k, call) ==
  IF answers = <<>> THEN r.s
  ELSE LET a == Head(answers)
       IN  IF a.type # "SRV" \/ ~MapHas(r.s._domains, a.name)
             THEN Dispatch(r, Tail(answers), address, k, call)
             ELSE LET host == HostOf(a, address)
                      peer == [ host |-> host, port |-> a.port, local |-> TRUE,
                                referrer |-> "", of |-> a.of ]
                  IN  Dispatch(FanOut(r, peer, a.name,
                                      MapGet(r.s._domains, a.name), k, call),
                               Tail(answers), address, k, call)

\* Discovery._onmdnsresponse
_onmdnsresponse(s, res, k, call) ==
  Dispatch([s |-> Log(s, "dispatch", [ev |-> "dispatch", res |-> res,
                                      index |-> s._domains]),
            n |-> 0],
           res.answers, res.address, k, call)

----------------------------------------------------------------------------
(* Discovery.lookupOne                                                     *)

lookupOne(s, key) ==
  IF s.destroyed THEN Throw(s, "lookup")  \* this.lookup(key) throws
  ELSE _topic(s, key, [announce |-> FALSE, port |-> 0, localPort |-> 0,
                       lookup |-> FALSE, one |-> TRUE])

----------------------------------------------------------------------------
(* Discovery.holepunch                                                     *)

\* process.nextTick(new Error(...)): nextTick takes a function, and throws
\* its own TypeError when handed anything else; nothing is queued.
NextTickOfError(s) == Throw(s, "nextTick")

\* this.dht.holepunch(peer, peer.referrer, cb)
DhtHolepunch(s, peer, referrer) ==
  Log([s EXCEPT !.punches = @ \cup {[peer |-> peer, referrer |-> referrer]}],
      "punch", [ev |-> "punch", peer |-> peer, referrer |-> referrer])

\* Discovery.holepunch: a peer without referrer has referrer "".
holepunch(s, peer) ==
  IF peer.referrer = "" THEN NextTickOfError(s)
  ELSE DhtHolepunch(s, peer, peer.referrer)

\* What a call of holepunch did, s before it and s2 after it.
Punched(s, peer, s2) ==
  Log(s2, "holepunch",
      [ ev |-> "holepunch", peer |-> peer,
        threw |-> \E j \in DOMAIN s2.log : s2.log[j].ev = "throw",
        queued |-> Len(s2.ticks) - Len(s.ticks),
        delegated |-> {s2.log[j].referrer :
                         j \in {k \in DOMAIN s2.log : s2.log[k].ev = "punch"}},
        times |-> Cardinality({k \in DOMAIN s2.log : s2.log[k].ev = "punch"}) ])

----------------------------------------------------------------------------
(* Discovery.ping.  A call's closure holds missing and res; beside them   *)
(* the call's record keeps what is observed of it: waiting (the dht.ping   *)
(* callbacks outstanding), issued (the dht.ping calls made), ponged (the   *)
(* nodes that answered, as they did), cbs and out (the calls of cb and     *)
(* what the last one got).                                                 *)

\* cb(err) / cb(null, res) of the ping call c
PingCallback(s, c, err, res) ==
  [s EXCEPT !.pings[c].cbs = Inc(@),
            !.pings[c].out = [err |-> err, res |-> res]]

\* Discovery.ping
ping(s) ==
  LET len == Len(s._bootstrap)
      c == Len(s.pings) + 1
      call == [ missing |-> len, res |-> <<>>, waiting |-> 1..len,
                issued |-> len, ponged |-> <<>>, cbs |-> 0,
                out |-> [err |-> FALSE, res |-> <<>>] ]
  IN  IF len = 0
        THEN [s EXCEPT !.pings = Append(@, [call EXCEPT !.issued = 0]),
                       !.ticks = Append(@, [fn |-> "pingcb", t |-> c])]
        ELSE [s EXCEPT !.pings = Append(@, call)]

\* A variant of the dht.ping callback that does not wait for the other nodes.
OnPongEager(s, c, b, pong) ==
  LET node == s._bootstrap[b]
      s1 == [s EXCEPT !.pings[c].waiting = @ \ {b},
                      !.pings[c].ponged = IF pong THEN Append(@, node) ELSE @,
                      !.pings[c].res =
                         IF pong THEN Append(@, [bootstrap |-> node, pong |-> TRUE])
                         ELSE @,
                      !.pings[c].missing = @ - 1]
  IN  IF s1.pings[c].res = <<>> THEN PingCallback(s1, c, TRUE, <<>>)
      ELSE PingCallback(s1, c, FALSE, s1.pings[c].res)

\* function (_, pong) of Discovery.ping: the callback of dht.ping for the
\* b-th bootstrap node of the call c; pong says whether the node answered.
\* The rtt of an entry is left out: time is not modelled.
OnPong(s, c, b, pong) ==
  LET node == s._bootstrap[b]
      s1 == [s EXCEPT !.pings[c].waiting = @ \ {b},
                      !.pings[c].ponged = IF pong THEN Append(@, node) ELSE @,
                      !.pings[c].res =
                         IF pong THEN Append(@, [bootstrap |-> node, pong |-> TRUE])
                         ELSE @,
                      !.pings[c].missing = @ - 1]
  IN  IF s1.pings[c].missing # 0 THEN s1
      ELSE IF s1.pings[c].res = <<>> THEN PingCallback(s1, c, TRUE, <<>>)
      ELSE PingCallback(s1, c, FALSE, s1.pings[c].res)

----------------------------------------------------------------------------
(* What the environment may deliver, and what the caller may do.           *)

\* One data event of a stream: peers found by the DHT node `node`.
DataItems ==
  { [ node |-> "node1",
      localPeers |-> << [host |-> "192.168.0.7", port |-> 7000] >>,
      peers |-> << [host |-> "8.8.8.8", port |-> 8000] >> ],
    [ node |-> "node1",
      localPeers |-> << >>,
      peers |-> << [host |-> "8.8.8.8", port |-> 8000] >> ] }

Domains == {DomainOf(_tld, key) : key \in Keys}

\* Queries of other hosts: with a token of their own (99), or without one.
ForeignQueries ==
  { [ questions |-> << [type |-> "SRV", name |-> d] >>,
      answers |-> << [type |-> "TXT", name |-> d, data |-> << 99 >>] >> ]
      : d \in Domains }
  \cup
  { [ questions |-> << [type |-> "SRV", name |-> d] >>, answers |-> << >> ]
      : d \in Domains }

\* Responses of other hosts.
ForeignResponses ==
  { [ answers |-> << [ type |-> "SRV", name |-> d, target |-> "0.0.0.0",
                       port |-> 5000, of |-> 0 ] >>,
      address |-> "192.168.0.9" ] : d \in Domains }

\* Further messages of other hosts: a query for two domains that carries a
\* token for the first, one that carries the token of this session's first
\* Topic, one with a question that is no SRV question.
MoreQueries ==
  LET d1 == DomainOf(_tld, Key1)
      d3 == DomainOf(_tld, Key3)
  IN  { [ questions |-> << [type |-> "SRV", name |-> d1],
                           [type |-> "SRV", name |-> d3] >>,
          answers |-> << [type |-> "TXT", name |-> d1, data |-> << 2 >>] >> ],
        [ questions |-> << [type |-> "SRV", name |-> d1] >>,
          answers |-> << [type |-> "TXT", name |-> d3, data |-> << 1 >>],
                         [type |-> "TXT", name |-> d1, data |-> << >>],
                         [type |-> "TXT", name |-> d1, data |-> << 1 >>] >> ],
        [ questions |-> << [type |-> "A", name |-> d1] >>, answers |-> << >> ] }

\* Further responses: a target that is an address, a record that is no SRV
\* record, a name of no Topic, and two answers in one message.
MoreResponses ==
  LET d1 == DomainOf(_tld, Key1)
      d3 == DomainOf(_tld, Key3)
      srv(d, target, port) ==
        [type |-> "SRV", name |-> d, target |-> target, port |-> port, of |-> 0]
  IN  { [ answers |-> << srv(d1, "10.0.0.5", 5001) >>, address |-> "192.168.0.9" ],
        [ answers |-> << [srv(d1, "0.0.0.0", 5000) EXCEPT !.type = "TXT"] >>,
          address |-> "192.168.0.9" ],
        [ answers |-> << srv("other.local", "0.0.0.0", 5000) >>,
          address |-> "192.168.0.9" ],
        [ answers |-> << srv(d1, "0.0.0.0", 5000), srv(d3, "10.0.0.5", 5001) >>,
          address |-> "192.168.0.9" ] }

\* What the caller's code does when a handler of n events invokes it: nothing,
\* or, at the k-th event, one of calls: a call back into the API, on the Topic
\* that emitted (destroy, update) or on the session (sdestroy).
Reactions(n, calls) ==
  {[k |-> 0, call |-> "none"]}
    \cup {[k |-> k, call |-> c] : k \in 1..n, c \in calls}

AllCalls == {"destroy", "update", "sdestroy"}

\* The calls within reach of the code that listens to Topic t: the caller's
\* listeners hold the Topic, lookupOne's callback holds only the session.
CallsOf(t) == IF topics[t].one THEN {"sdestroy"} ELSE AllCalls

\* How many peer events the response r makes in the current state, at most.
Fan(r) ==
  LET ns == [i \in 1..Len(r.answers) |-> Len(MapGet(_domains, r.answers[i].name))]
  IN  IF \E i \in 1..Len(ns) : ns[i] > 0 THEN MaxTopics ELSE 0

----------------------------------------------------------------------------
(* The actions: one per handler.                                           *)

\* opts.bootstrap: the three default nodes, or the caller's list.
DefaultBootstrap == <<"bootstrap1", "bootstrap2", "bootstrap3">>

InitOf(domainOpts, bootstraps, observed) ==
  /\ _tld \in {TldOf(o) : o \in domainOpts}
  /\ _bootstrap \in bootstraps
  /\ pings = <<>>
  /\ punches = {}
  /\ obs = observed
  /\ log = <<>>
  /\ topics = <<>>
  /\ _domains = <<>>
  /\ destroyed = FALSE
  /\ missing = 0
  /\ timers = {}
  /\ streams = {}
  /\ ticks = <<>>
  /\ unannounces = {}
  /\ queries = {}
  /\ responses = {}
  /\ dhtDestroyed = FALSE
  /\ mdnsDestroyed = FALSE
  /\ hist = <<>>
  /\ closes = 0
  /\ unclosedAtClose = {}

InitWith(domainOpts, observed) ==
  InitOf(domainOpts, {DefaultBootstrap}, observed)

\* The program is between two events: the nextTick queue has been drained.
Idle == ticks = <<>>

\* The caller's calls.
Announce(keys, options) ==
  \E key \in keys, opts \in options :
    /\ Len(topics) < MaxTopics
    /\ Commit(Returned(Cur, "announce", announce(Cur, key, opts)))

Lookup(keys) ==
  \E key \in keys :
    /\ Len(topics) < MaxTopics
    /\ Commit(Returned(Cur, "lookup", lookup(Cur, key)))

LookupOne(keys) ==
  \E key \in keys :
    /\ Len(topics) < MaxTopics
    /\ Commit(lookupOne(Cur, key))

Update ==
  \E t \in DOMAIN topics :
    /\ ~topics[t].one
    /\ Commit(TopicUpdate(Cur, t))

Destroy ==
  \E t \in DOMAIN topics :
    /\ ~topics[t].one
    /\ Commit(TopicDestroy(Cur, t))

SDestroy == \E s \in {Cur} : Commit(SessionDestroy(s))

\* A process.nextTick callback runs.
Tick ==
  /\ ticks # <<>>
  /\ LET f == Head(ticks)
         s == [Cur EXCEPT !.ticks = Tail(@)]
     IN  IF f.fn = "close"
           THEN \E r \in Reactions(1, CallsOf(f.t)) :
                  Commit(EmitClose(s, f.t, r.call))
           ELSE IF f.fn = "pingcb"
           THEN Commit(PingCallback(s, f.t, TRUE, <<>>))
           ELSE Commit(SessionDone(s))

\* A setTimeout callback of Discovery._notify runs: loop of Topic t's channel fn.
TimeoutOf(t, fn) ==
  \E x \in timers :
    /\ Idle /\ x.t = t /\ x.fn = fn
    /\ LET s == [Cur EXCEPT !.timers = @ \ {x}]
       IN  Commit(IF fn = "dht" THEN DhtLoop(s, t) ELSE MdnsLoop(s, t))

Timeout == \E t \in DOMAIN topics, fn \in {"dht", "mdns"} : TimeoutOf(t, fn)

\* A stream delivers data.
Data ==
  \E x \in streams, data \in DataItems :
    /\ Idle /\ x.st = "open"
    /\ \E r \in Reactions(Len(PeersOf(data)), CallsOf(x.t)) :
         Commit(_ondhtdata(Cur, x.t, data, r.k, r.call))

\* A stream fails.
Error ==
  \E x \in streams :
    /\ Idle /\ x.st = "open"
    /\ Cardinality({y \in streams : y.t = x.t /\ y.st = "errored"}) < MaxFailed
    /\ \E r \in Reactions(1, CallsOf(x.t)) :
         Commit(StreamSignal(Cur, <<x.t, x.id>>, "error", r.call))

\* A stream ends.
End ==
  \E x \in streams :
    /\ Idle
    /\ \E r \in Reactions(1, CallsOf(x.t)) :
         Commit(StreamSignal(Cur, <<x.t, x.id>>, "end", r.call))

\* The callback of dht.unannounce runs.
Unannounced ==
  \E t \in unannounces :
    /\ Idle
    /\ \E r \in Reactions(1, CallsOf(t)) :
         Commit(EmitClose([Cur EXCEPT !.unannounces = @ \ {t}], t, r.call))

\* The mdns socket delivers a query: one of this session's own, or one of
\* foreign, another host's.
QueryInOf(foreign) ==
  /\ Idle /\ ~mdnsDestroyed
  /\ \E q \in queries \cup foreign : Commit(_onmdnsquery(Cur, q))

QueryIn == QueryInOf(ForeignQueries)

\* The mdns socket delivers a response: this session's own, or one of
\* foreign, another host's.
ResponseInOf(foreign) ==
  /\ Idle /\ ~mdnsDestroyed
  /\ \/ \E res \in responses : \E r \in Reactions(Fan(res), AllCalls) :
          Commit(_onmdnsresponse([Cur EXCEPT !.responses = @ \ {res}],
                                 res, r.k, r.call))
     \/ \E res \in foreign : \E r \in Reactions(Fan(res), AllCalls) :
          Commit(_onmdnsresponse(Cur, res, r.k, r.call))

ResponseIn == ResponseInOf(ForeignResponses)

\* The candidates a caller may hand to holepunch: the `peer` events it got.
Candidates ==
  UNION {{PeersOf(d)[i] : i \in DOMAIN PeersOf(d)} : d \in DataItems}

Holepunch ==
  \E peer \in Candidates :
    \E s \in {Cur} : Commit(Punched(s, peer, holepunch(s, peer)))

\* The callback of dht.holepunch runs: cb, the caller's function.
HolepunchDone ==
  \E x \in punches :
    /\ Idle
    /\ Commit(Log([Cur EXCEPT !.punches = @ \ {x}], "punchcb",
                  [ev |-> "punchcb", peer |-> x.peer]))

Ping == Len(pings) < MaxPings /\ Commit(ping(Cur))

\* A callback of dht.ping runs: the node answered, or it did not.
Pong ==
  \E c \in DOMAIN pings :
    \E b \in pings[c].waiting, pong \in BOOLEAN :
      Idle /\ Commit(OnPong(Cur, c, b, pong))

\* The session of the default options and the Topics of one key.
WithPort == {o \in AnnounceOpts : o.port # 0}

Next ==
  \/ Announce({Key1}, WithPort) \/ Lookup({Key1}) \/ LookupOne({Key1})
  \/ Update \/ Destroy \/ SDestroy
  \/ Tick \/ Timeout \/ Data \/ Error \/ End \/ Unannounced
  \/ QueryIn \/ ResponseIn

Init == InitWith({""}, {})

Spec == Init /\ [][Next]_vars

----------------------------------------------------------------------------
(* The specifications: one program, observed in different ways.            *)

\* Every scheduled callback runs in the end: the nextTick queue is drained
\* before any I/O, and a setTimeout callback that stays scheduled is called
\* once its delay (at most 600 s) has passed.
Fairness ==
  /\ WF_vars(Tick)
  /\ \A t \in 1..MaxTopics : WF_vars(TimeoutOf(t, "dht"))

InitEvents == InitWith({""}, {"peer", "update"})
SpecEvents == InitEvents /\ [][Next]_vars

InitClose == InitWith({""}, {"close", "destroyed"})
SpecClose == InitClose /\ [][Next]_vars

InitOne == InitWith({""}, {"cb", "peer", "signal"})
SpecOne == InitOne /\ [][Next]_vars

InitRetry == InitWith({""}, {"op", "updated"})
SpecRetry == InitRetry /\ [][Next]_vars

\* The global channel and the caller, without the local channel's inbound
\* traffic: no handler of that traffic reads or writes the global loop, and
\* what a `peer` listener may do, it may do here at the `peer` events of Data.
NextGlobal ==
  \/ Announce({Key1}, WithPort) \/ Lookup({Key1}) \/ LookupOne({Key1})
  \/ Update \/ Destroy \/ SDestroy
  \/ Tick \/ Timeout \/ Data \/ Error \/ End \/ Unannounced

InitApi == InitWith({""}, {"api", "throw"})
SpecApi == InitApi /\ [][Next]_vars

\* The calls that use the bootstrap nodes and the hole-punch operation; they
\* read and write nothing of the Topics.
BootstrapOpts == {<<>>, <<"bootstrap1">>, DefaultBootstrap}

NextAux == Ping \/ Pong \/ Holepunch \/ HolepunchDone \/ Tick

InitAux == InitOf({""}, BootstrapOpts, {"holepunch", "punch", "punchcb", "throw"})
SpecAux == InitAux /\ [][NextAux]_vars

\* Every callback that was asked for is called in the end: those of nextTick,
\* and those of dht.unannounce (the operation completes).
Completion == WF_vars(Tick) /\ WF_vars(Unannounced)

InitTeardown == InitWith({""}, {"close", "sdestroyed"})
SpecTeardown == InitTeardown /\ [][NextGlobal]_vars /\ Completion

\* The Domain Index with Topics of all the keys, under either suffix.
NextKeys ==
  \/ Announce(Keys, WithPort) \/ Lookup(Keys) \/ LookupOne(Keys)
  \/ Destroy \/ SDestroy \/ Tick \/ Unannounced

InitKeys == InitWith(DomainOpts, {})
SpecKeys == InitKeys /\ [][NextKeys]_vars

\* The Domain Index and the local channel, with Topics of all the keys; the
\* global streams stay open and no timer fires.
NextIndex ==
  \/ Announce(Keys, AnnounceOpts) \/ Lookup(Keys)
  \/ Destroy \/ SDestroy \/ Tick \/ Unannounced
  \/ QueryInOf(ForeignQueries \cup MoreQueries)
  \/ ResponseInOf(ForeignResponses \cup MoreResponses)

InitIndex == InitWith({""}, {"peer", "response", "dispatch"})
SpecIndex == InitIndex /\ [][NextIndex]_vars

InitCallback == InitWith({""}, {"cb", "cbs", "peer"})
SpecCallback == InitCallback /\ [][Next]_vars

InitSignal == InitWith({""}, {"signal", "update", "sched"})
SpecSignal == InitSignal /\ [][NextGlobal]_vars /\ Fairness

----------------------------------------------------------------------------
(* Reading the record.                                                     *)

\* The positions of the log that hold an entry of kind ev.
Logged(ev) == {i \in DOMAIN log : log[i].ev = ev}

\* The same, of Topic t.
LoggedOf(ev, t) == {i \in Logged(ev) : log[i].t = t}

TimersOf(t, fn) == {x \in timers : x.t = t /\ x.fn = fn}

KindOf(t) == IF topics[t].announce THEN "announce" ELSE "lookup"

----------------------------------------------------------------------------
(* The claims.                                                             *)

\* C1: the session emits `close` at most once, and when it does every Topic
\* ever created under it has already emitted its own `close`.
C1_CloseAfterEveryTopic == closes <= 1 /\ unclosedAtClose = {}

\* C2: no Topic emits a `peer` event whose candidate is the Topic's own SRV
\* advertisement.
C2_NoOwnAdvertisement ==
  \A i \in Logged("peer") : log[i].peer.of # log[i].t

\* C5: a Topic emits no `peer` and no `update` event once its destroy() has
\* been called.
C5_SilentAfterDestroy ==
  \A i \in Logged("peer") \cup Logged("update") : ~log[i].late

\* C3: when the stream of a lookupOne Topic ends or errors before any peer
\* has arrived, the Topic is destroyed and the callback gets a failure, by the
\* time the handler of that end or error is through.
C3_FailsWhenStreamEnds ==
  \A i \in Logged("signal") :
    (topics[log[i].t].one /\ log[i].first /\ log[i].live /\ log[i].peers = 0)
      => /\ topics[log[i].t].destroyed
         /\ \E j \in LoggedOf("cb", log[i].t) : log[j].err

\* C4: lookupOne's callback succeeds with the first `peer` event of its
\* Topic, whichever channel it came from, and when it is called the Topic is
\* destroyed, out of the Domain Index, and has no timer and no stream.
C4_SucceedsWithFirstPeer ==
  /\ \A i \in Logged("cb") :
       ~log[i].err =>
         /\ log[i].at.destroyed
         /\ ~log[i].at.indexed
         /\ log[i].at.timers = {}
         /\ log[i].at.streams = 0
         /\ \E j \in LoggedOf("peer", log[i].t) :
              j < i /\ log[j].nth = 1 /\ log[j].peer = log[i].peer
  /\ \A j \in Logged("peer") :
       (topics[log[j].t].one /\ log[j].nth = 1) =>
         \E i \in LoggedOf("cb", log[j].t) :
           i > j /\ ~log[i].err /\ log[i].peer = log[j].peer

\* A lookupOne succeeds with a peer that another host advertised on the local
\* channel, while the Topic's lookup stream is still open.
C4_Witness ==
  \E i \in Logged("cb") :
    /\ ~log[i].err
    /\ log[i].peer.host = "192.168.0.9"
    /\ log[i].at.destroyed

\* C6: a destroyed Topic has no scheduled retry on either channel, and no
\* announce, lookup or multicast query is issued for a Topic whose destroy()
\* has been called.
C6_NothingAfterDestroy ==
  /\ \A t \in DOMAIN topics :
       topics[t].destroyed => {x \in timers : x.t = t} = {}
  /\ \A i \in Logged("op") : ~log[i].late

\* C7: a Topic made by announce without the lookup flag has sent no multicast
\* query and has no local-channel retry scheduled.
C7_AnnounceOnlyIsSilent ==
  \A t \in DOMAIN topics :
    (topics[t].announce /\ ~hist[t].lookupOpt)
      => QueryOf(topics[t]) \notin queries /\ TimersOf(t, "mdns") = {}

\* C8: Topic.destroy() on a live Topic returns with the Topic marked
\* destroyed, without timer or stream, out of the Domain Index, and with its
\* `close` still to come: after the one unannounce if the Topic announces, on
\* the next tick and with no unannounce otherwise.  `close` is emitted at most
\* once, and a further destroy() changes nothing.
C8_DestroyContract ==
  /\ \A i \in Logged("destroyed") :
       IF log[i].again THEN log[i].at = log[i].before
       ELSE /\ log[i].at.destroyed
            /\ log[i].at.timers = {}
            /\ log[i].at.streams = 0
            /\ ~log[i].at.indexed
            /\ log[i].at.closed = 0
            /\ IF topics[log[i].t].announce
                 THEN /\ log[i].at.unannounces = 1
                      /\ log[i].at.unannouncing /\ ~log[i].at.ticking
                 ELSE /\ log[i].at.unannounces = 0
                      /\ ~log[i].at.unannouncing /\ log[i].at.ticking
  /\ \A t \in DOMAIN topics :
       /\ hist[t].closed <= 1
       /\ hist[t].unannounced <= 1
       /\ hist[t].closed = 1 =>
            /\ topics[t].destroyed
            /\ t \notin unannounces
            /\ hist[t].unannounced = (IF topics[t].announce THEN 1 ELSE 0)

\* destroy() has just returned for a live announcing Topic: the unannounce is
\* outstanding and `close` has not been emitted.
C8_Witness ==
  \E i \in Logged("destroyed") :
    /\ ~log[i].again
    /\ topics[log[i].t].announce
    /\ log[i].at.unannouncing
    /\ hist[log[i].t].closed = 0

C10_OneUpdateOneRetry ==
  \A i \in Logged("signal") :
    log[i].live =>
      LET t == log[i].t
          ups == LoggedOf("update", t)
          retries == {j \in LoggedOf("sched", t) : log[j].fn = "dht"}
      IN  IF log[i].first
            THEN /\ Cardinality(ups) = 1
                 /\ \A j \in ups :
                      log[j].err = (IF log[i].sig = "error" THEN "error" ELSE "none")
                 /\ Cardinality(retries) = 1
                 /\ \A j \in retries : ~log[j].eager
                 /\ topics[t].destroyed \/ InIndex(Cur, t)
                 /\ topics[t].destroyed \/ Cardinality(TimersOf(t, "dht")) = 1
            ELSE ups = {} /\ retries = {}

\* The global retry of a live Topic is scheduled.
RetryScheduled(t) ==
  t \in DOMAIN topics /\ ~topics[t].destroyed /\ TimersOf(t, "dht") # {}

\* The Topic has a fresh operation of its kind under way, or was destroyed.
Reissued(t) ==
  /\ t \in DOMAIN topics
  /\ \/ topics[t].destroyed
     \/ \E x \in streams : x.t = t /\ x.st = "open" /\ x.kind = KindOf(t)

\* C10: the handler as above at every signal, and a scheduled retry of a live
\* Topic leads to a fresh announce or lookup unless the Topic is destroyed
\* first (an update() issues the operation itself).
C10_RetryContract ==
  /\ []C10_OneUpdateOneRetry
  /\ \A t \in 1..MaxTopics : RetryScheduled(t) ~> Reissued(t)

\* A stream failed on a live Topic, whose retry is now scheduled.
C10_Witness ==
  \E i \in Logged("signal") :
    /\ log[i].live /\ log[i].first /\ log[i].sig = "error"
    /\ RetryScheduled(log[i].t)

\* C11: a call of announce or lookup after Session.destroy() throws, makes no
\* Topic, issues no operation and schedules nothing, and leaves the Domain
\* Index as it was; the Domain Index is empty once the session is destroyed.
C11_RefusedAfterDestroy ==
  /\ \A i \in Logged("api") :
       log[i].after =>
         /\ log[i].threw
         /\ log[i].made = 0
         /\ ~log[i].issued
         /\ log[i].index = <<>>
  /\ destroyed => _domains = <<>>

\* lookup was called on a destroyed session that had made a Topic before.
C11_Witness ==
  \E i \in Logged("api") :
    log[i].after /\ log[i].op = "lookup" /\ log[i].threw /\ Len(topics) > 0

\* C12: holepunch with a candidate without referrer does not call
\* dht.holepunch and hands the failure to cb (on the next tick); with a
\* referrer it calls dht.holepunch once, with that referrer.
C12_HolepunchReports ==
  \A i \in Logged("holepunch") :
    IF log[i].peer.referrer = ""
      THEN log[i].times = 0 /\ ~log[i].threw /\ log[i].queued = 1
      ELSE log[i].times = 1 /\ log[i].delegated = {log[i].peer.referrer}

\* The nodes of a result list.
NodesOf(res) == [i \in DOMAIN res |-> res[i].bootstrap]

\* C13: a ping calls cb at most once, and has called it exactly when every
\* dht.ping it issued has completed: with the nodes that answered, in the
\* order they did, or with an error when none answered.  Without bootstrap
\* nodes it issues no dht.ping and calls cb with an error on the next tick.
C13_PingCallsBackOnce ==
  \A c \in DOMAIN pings :
    LET p == pings[c] IN
    /\ p.cbs <= 1
    /\ p.issued = Len(_bootstrap)
    /\ IF Len(_bootstrap) = 0
         THEN /\ p.cbs = 1 <=> ~InSeq(ticks, [fn |-> "pingcb", t |-> c])
              /\ p.cbs = 1 => p.out.err
         ELSE /\ p.cbs = 1 <=> p.waiting = {}
              /\ p.cbs = 1 =>
                   IF p.ponged = <<>> THEN p.out.err
                   ELSE ~p.out.err /\ NodesOf(p.out.res) = p.ponged

\* Of three nodes the third answered first and the first last; the second did
\* not answer.
C13_Witness ==
  \E c \in DOMAIN pings :
    /\ pings[c].cbs = 1
    /\ pings[c].ponged = <<"bootstrap3", "bootstrap1">>
    /\ ~pings[c].out.err

\* C14, inside destroy(): Discovery.destroy() returns before the session
\* emits `close` and before dht.destroy(), with done still to run on a tick.
C14_CloseNotInsideDestroy ==
  \A i \in Logged("sdestroyed") :
    log[i].closes = 0 /\ ~log[i].dht /\ log[i].ticking

\* C14: as above, and once Session.destroy() has been called the session
\* does call dht.destroy() and emit `close`, given that unannounces complete.
C14_SessionCloses ==
  /\ []C14_CloseNotInsideDestroy
  /\ destroyed ~> (dhtDestroyed /\ closes = 1)

\* The session has closed after waiting for the unannounce of a Topic that
\* was live when it was destroyed.
C14_Witness ==
  /\ closes = 1 /\ dhtDestroyed /\ unclosedAtClose = {}
  /\ \E t \in DOMAIN topics : topics[t].announce /\ topics[t].done

\* The hex encoding of the first 20 bytes of the keys, written out.
HexOfPrefix(key) ==
  IF key[1] = 1 THEN "0101010101010101010101010101010101010101"
  ELSE "ffffffffffffffffffffffffffffffffffffffff"

\* The Domain Index entries that hold Topic t.
BucketsOf(t) == {i \in DOMAIN _domains : InSeq(_domains[i].set, t)}

\* C15: a Topic's domain is the hex encoding of the first 20 bytes of its key
\* followed by '.' and the suffix; Topics whose keys agree on those bytes
\* have one domain and, while registered, sit in one and the same entry of
\* the Domain Index, which has one entry per domain.
C15_DomainOfPrefix ==
  /\ _tld \in {".hyperswarm.local", ".test.local"}
  /\ \A t \in DOMAIN topics :
       topics[t]._domain = HexOfPrefix(topics[t].key) \o _tld
  /\ \A t, u \in DOMAIN topics :
       Slice(topics[t].key, PrefixLen) = Slice(topics[u].key, PrefixLen) =>
         /\ topics[t]._domain = topics[u]._domain
         /\ (InIndex(Cur, t) /\ InIndex(Cur, u)) =>
              BucketsOf(t) = BucketsOf(u) /\ Cardinality(BucketsOf(t)) = 1
  /\ \A i, j \in DOMAIN _domains :
       _domains[i].name = _domains[j].name => i = j

\* Two registered Topics with different keys that agree on the first 20 bytes.
C15_Witness ==
  \E t, u \in DOMAIN topics :
    /\ topics[t].key = Key1 /\ topics[u].key = Key2
    /\ InIndex(Cur, t) /\ InIndex(Cur, u)
    /\ _tld = ".test.local"

\* C16: the Domain Index has no entry with an empty set, and a Topic is in
\* the index, once and under the domain derived from its key, exactly while
\* destroy() has not been called on it.
C16_IndexHoldsLiveTopics ==
  /\ \A i \in DOMAIN _domains : _domains[i].set # <<>>
  /\ \A t \in DOMAIN topics :
       /\ InIndex(Cur, t) <=> ~topics[t].destroyed
       /\ \A i \in BucketsOf(t) :
            /\ _domains[i].name = DomainOf(_tld, topics[t].key)
            /\ Cardinality({j \in DOMAIN _domains[i].set :
                              _domains[i].set[j] = t}) = 1
       /\ Cardinality(BucketsOf(t)) <= 1

\* One Topic left the index at its destroy() while another of the same
\* domain stays in it.
C16_Witness ==
  \E t, u \in DOMAIN topics :
    /\ topics[t].destroyed /\ ~InIndex(Cur, t)
    /\ ~topics[u].destroyed /\ InIndex(Cur, u)
    /\ topics[t]._domain = topics[u]._domain

\* The token a query carries for a domain: that of its first TXT record of
\* that name with data, or Null.
TokenFor(res, name) ==
  LET I == {i \in DOMAIN res.answers :
              /\ res.answers[i].type = "TXT" /\ res.answers[i].name = name
              /\ Len(res.answers[i].data) > 0}
  IN  IF I = {} THEN Null
      ELSE res.answers[CHOOSE i \in I : \A j \in I : i <= j].data[1]

\* The questions of query res, among those of the given types, that Topic t
\* has to answer: those for its domain, when it is in the Domain Index,
\* announces with a local port and the query does not carry its token.
Answerable(res, t, types) ==
  {i \in DOMAIN res.questions :
     /\ res.questions[i].type \in types
     /\ res.questions[i].name = topics[t]._domain
     /\ InIndex(Cur, t) /\ topics[t]._answer # Null
     /\ TokenFor(res, res.questions[i].name) # topics[t].id}

\* One response went out for the query of this step, and it holds the answer
\* record of every Topic once for each question of the given types that the
\* Topic has to answer, and nothing else.
AnswersQueries(types) ==
  /\ Cardinality(Logged("response")) <= 1
  /\ \A i \in Logged("response") :
       LET res == log[i].to
           answers == log[i].answers
       IN  /\ \A j \in DOMAIN answers :
                /\ answers[j].of \in DOMAIN topics
                /\ answers[j] =
                     [ type |-> "SRV", name |-> topics[answers[j].of]._domain,
                       target |-> "0.0.0.0",
                       port |-> topics[answers[j].of]._answer,
                       of |-> answers[j].of ]
           /\ \A t \in DOMAIN topics :
                Cardinality({j \in DOMAIN answers : answers[j].of = t})
                  = Cardinality(Answerable(res, t, types))

QuestionTypes == {"SRV", "A"}

\* C17 as stated: every inbound query is answered by one response, whose
\* answers are the answer records of the Topics in the bucket of a queried
\* domain that announce with a local port, less the Topics whose token the
\* query carries for that domain.
C17_AnswersEveryQuestion == AnswersQueries(QuestionTypes)

\* C17: every inbound query is answered by one response, whose answers are,
\* for each SRV question, the answer records of the Topics in the bucket of
\* the question's domain that announce with a local port, less the Topic
\* whose token the query carries for that domain; a Topic never answers its
\* own query.
C17_AnswersSrvQuestions ==
  /\ AnswersQueries({"SRV"})
  /\ \A i \in Logged("response"), t \in DOMAIN topics :
       log[i].to = QueryOf(topics[t]) =>
         \A j \in DOMAIN log[i].answers : log[i].answers[j].of # t

\* Two announcing Topics whose keys collide on the first 20 bytes both answer
\* the query of another host.
C17_Witness ==
  \E i \in Logged("response") : \E t, u \in DOMAIN topics :
    /\ topics[t].key = Key1 /\ topics[u].key = Key2
    /\ log[i].to \in ForeignQueries
    /\ \E j, k \in DOMAIN log[i].answers :
         log[i].answers[j].of = t /\ log[i].answers[k].of = u

\* The `peer` event that answer a of a response from address makes.
PeerOfAnswer(a, address) ==
  [ host |-> IF a.target = "0.0.0.0" THEN address ELSE a.target,
    port |-> a.port, local |-> TRUE, referrer |-> "", of |-> a.of ]

\* The SRV answers of response res that name domain d.
SrvAnswers(res, d) ==
  {i \in DOMAIN res.answers :
     res.answers[i].type = "SRV" /\ res.answers[i].name = d}

\* The `peer` events of this step that Topic t received with the value p.
PeerEvents(t, p) == {i \in LoggedOf("peer", t) : log[i].peer = p}

\* The Topics and the events of the dispatch pass of this step: a Topic
\* outside the Domain Index, an answer that is no SRV record or names no
\* entry make no event, and every event is that of an SRV answer for the
\* domain of the Topic that receives it.
DispatchesOnlyAnswers ==
  \A i \in Logged("dispatch") :
    \A j \in Logged("peer") :
      /\ InSeq(Flatten(log[i].index), log[j].t)
      /\ \E k \in SrvAnswers(log[i].res, topics[log[j].t]._domain) :
           log[j].peer = PeerOfAnswer(log[i].res.answers[k], log[i].res.address)

\* C18 as stated: every Topic that is in the set of an SRV answer's domain
\* when the response arrives receives one `peer` event for that answer
\* within the pass.
C18_EveryTopicOfTheSet ==
  /\ DispatchesOnlyAnswers
  /\ \A i \in Logged("dispatch") :
       \A t \in DOMAIN topics :
         InSeq(Flatten(log[i].index), t) =>
           \A k \in SrvAnswers(log[i].res, topics[t]._domain) :
             LET p == PeerOfAnswer(log[i].res.answers[k], log[i].res.address)
             IN  Cardinality(PeerEvents(t, p)) =
                   Cardinality({l \in SrvAnswers(log[i].res, topics[t]._domain) :
                      PeerOfAnswer(log[i].res.answers[l],
                                   log[i].res.address) = p})

\* C18: within the pass every Topic receives at most one `peer` event for
\* each SRV answer that names its domain, with local = true, referrer = null,
\* the answer's port and the answer's target or the sender's address as
\* host, and none once it is destroyed; a Topic that the listeners of the
\* pass did not destroy receives exactly one for each such answer; other
\* answers and Topics outside the index make no event.
C18_EveryTopicReached ==
  /\ DispatchesOnlyAnswers
  /\ \A i \in Logged("dispatch") :
       /\ \A j \in Logged("peer") : ~log[j].late
       /\ \A t \in DOMAIN topics :
            InSeq(Flatten(log[i].index), t) =>
              \A k \in SrvAnswers(log[i].res, topics[t]._domain) :
                LET p == PeerOfAnswer(log[i].res.answers[k], log[i].res.address)
                    n == Cardinality({l \in SrvAnswers(log[i].res, topics[t]._domain) :
                           PeerOfAnswer(log[i].res.answers[l],
                                        log[i].res.address) = p})
                IN  /\ Cardinality(PeerEvents(t, p)) <= n
                    /\ ~topics[t].destroyed => Cardinality(PeerEvents(t, p)) = n

\* One response reached two Topics of one domain in one pass, with the
\* sender's address in place of the wildcard target.
C18_Witness ==
  \E i \in Logged("dispatch") : \E t, u \in DOMAIN topics :
    /\ t # u /\ topics[t]._domain = topics[u]._domain
    /\ log[i].res.address = "192.168.0.9"
    /\ \E k \in SrvAnswers(log[i].res, topics[t]._domain) :
         /\ log[i].res.answers[k].target = "0.0.0.0"
         /\ PeerEvents(t, PeerOfAnswer(log[i].res.answers[k], "192.168.0.9")) # {}
         /\ PeerEvents(u, PeerOfAnswer(log[i].res.answers[k], "192.168.0.9")) # {}

\* The streams of Topic t that may still deliver.
LiveStreams(t) == {x \in streams : x.t = t /\ x.st = "open"}

\* The handle that Topic t holds for its loop fn.
HeldTimeout(t, fn) ==
  IF fn = "dht" THEN topics[t]._timeoutDht ELSE topics[t]._timeoutMdns

\* C19: a Topic has at most one live global stream, which is the one it
\* tracks, at most one scheduled retry for each channel, never a live global
\* stream beside a scheduled global retry, and it holds the handle of every
\* retry that is scheduled for it.
C19_OneStreamOneRetry ==
  \A t \in DOMAIN topics :
    /\ Cardinality(LiveStreams(t)) <= 1
    /\ \A x \in LiveStreams(t) : topics[t]._stream = x.id
    /\ \A fn \in {"dht", "mdns"} :
         /\ Cardinality(TimersOf(t, fn)) <= 1
         /\ \A x \in TimersOf(t, fn) : HeldTimeout(t, fn) = x.id
    /\ ~(LiveStreams(t) # {} /\ TimersOf(t, "dht") # {})

\* update() found a scheduled global retry, cancelled it and issued anew: the
\* Topic has its one live stream and its one local retry.
C19_Witness ==
  \E i \in Logged("updated") :
    /\ log[i].pending /\ ~log[i].left
    /\ Cardinality(LiveStreams(log[i].t)) = 1
    /\ Cardinality(TimersOf(log[i].t, "mdns")) = 1
    /\ TimersOf(log[i].t, "dht") = {}

\* C20: the callback of a lookupOne is called at most once, whatever the
\* order of the `peer` events of both channels, the end or error of the
\* stream, the Topic's close and Session.destroy(): never with a success and
\* with a failure, never with two successes, also when one batch brings
\* several candidates.
C20_CallsBackAtMostOnce ==
  \A t \in DOMAIN topics :
    /\ hist[t].succeeded + hist[t].failed <= 1
    /\ Cardinality(LoggedOf("cb", t)) <= 1
    /\ ~topics[t].one => hist[t].succeeded + hist[t].failed = 0

\* One batch brought a lookupOne Topic two candidates, and its callback was
\* called once, with the first.
C20_Witness ==
  \E t \in DOMAIN topics :
    /\ topics[t].one
    /\ Cardinality(LoggedOf("peer", t)) >= 2
    /\ hist[t].succeeded = 1 /\ hist[t].failed = 0
    /\ \E i \in LoggedOf("cb", t) : ~log[i].err

====
